---------------------------- MODULE Spec2Model ----------------------------
(***************************************************************************)
(* A model of qbt_add.py: add a torrent or magnet to qBittorrent under a   *)
(* unique marker tag, wait for it to register, read its trackers, choose a *)
(* category and an upload limit by matching the tracker hostnames against  *)
(* a rule list, apply them, clear the marker tag and resume.               *)
(*                                                                         *)
(* Text is a sequence of one-character strings, so that parsing, regular   *)
(* expression search and integer coercion are computed and not assumed.    *)
(* A YAML/JSON value is a record [t, i, s]: its type tag, its number and   *)
(* its text.                                                               *)
(***************************************************************************)
EXTENDS Integers, Sequences, FiniteSets, TLC

(***************************************************************************)
(* Bounds of the model.                                                    *)
(***************************************************************************)
MaxRules == 2        \* rules in a rule set drawn for match_rules
MaxHosts == 2        \* hostnames in a hostname list drawn for match_rules
MaxTimeout == 2      \* largest --timeout, in seconds
MaxCallDelay == 1    \* largest time one find-by-tag call takes, in ticks
MaxTrackers == 3     \* trackers in a list drawn for extract_hostnames_from_trackers

(***************************************************************************)
(* Values.                                                                 *)
(***************************************************************************)
Absent == [t |-> "absent", i |-> 0, s |-> <<>>]   \* the key is not in the dict
NoneV == [t |-> "none", i |-> 0, s |-> <<>>]      \* None / YAML null
IntV(n) == [t |-> "int", i |-> n, s |-> <<>>]
BoolV(b) == [t |-> "bool", i |-> IF b THEN 1 ELSE 0, s |-> <<>>]  \* true / false
StrV(str) == [t |-> "str", i |-> 0, s |-> str]
HalfV(n) == [t |-> "float", i |-> n, s |-> <<>>]  \* the float n/2
InfV == [t |-> "inf", i |-> 0, s |-> <<>>]        \* the float .inf

\* dict.get(key): an absent key reads as None
Get(v) == IF v = Absent THEN NoneV ELSE v

\* Python truth value of a value
Truthy(v) ==
    CASE v.t = "absent" -> FALSE
      [] v.t = "none" -> FALSE
      [] v.t = "int" -> v.i # 0
      [] v.t = "bool" -> v.i # 0
      [] v.t = "float" -> v.i # 0
      [] v.t = "inf" -> TRUE
      [] v.t = "str" -> v.s # <<>>

Digits == {"0", "1", "2", "3", "4", "5", "6", "7", "8", "9"}

DigitVal(c) ==
    CASE c = "0" -> 0 [] c = "1" -> 1 [] c = "2" -> 2 [] c = "3" -> 3
      [] c = "4" -> 4 [] c = "5" -> 5 [] c = "6" -> 6 [] c = "7" -> 7
      [] c = "8" -> 8 [] c = "9" -> 9

RECURSIVE StripLeft(_)
StripLeft(str) ==
    IF str # <<>> /\ Head(str) = " " THEN StripLeft(Tail(str)) ELSE str

RECURSIVE StripRight(_)
StripRight(str) ==
    IF str # <<>> /\ str[Len(str)] = " "
    THEN StripRight(SubSeq(str, 1, Len(str) - 1))
    ELSE str

RECURSIVE DigitsValue(_, _)
DigitsValue(str, acc) ==
    IF str = <<>> THEN acc
    ELSE DigitsValue(Tail(str), 10 * acc + DigitVal(Head(str)))

\* int(text): surrounding blanks dropped, an optional sign, then digits only
ParseInt(str) ==
    LET body == StripRight(StripLeft(str))
        signed == body # <<>> /\ Head(body) \in {"+", "-"}
        digs == IF signed THEN Tail(body) ELSE body
        good == digs # <<>> /\ \A k \in 1..Len(digs) : digs[k] \in Digits
        mag == IF good THEN DigitsValue(digs, 0) ELSE 0
    IN [ok |-> good,
        val |-> IF signed /\ Head(body) = "-" THEN 0 - mag ELSE mag]

\* n/2 truncated toward zero
TruncHalf(n) == IF n >= 0 THEN n \div 2 ELSE 0 - ((0 - n) \div 2)

\* int(v).  out is "ok" (val is the integer), "caught" (TypeError or
\* ValueError, which match_rules catches) or "raised" (OverflowError, which
\* it does not catch).
IntCoerce(v) ==
    CASE v.t = "int" -> [out |-> "ok", val |-> v.i]
      [] v.t = "bool" -> [out |-> "ok", val |-> v.i]
      [] v.t = "float" -> [out |-> "ok", val |-> TruncHalf(v.i)]
      [] v.t = "inf" -> [out |-> "raised", val |-> 0]
      [] v.t = "str" ->
            IF ParseInt(v.s).ok
            THEN [out |-> "ok", val |-> ParseInt(v.s).val]
            ELSE [out |-> "caught", val |-> 0]
      [] OTHER -> [out |-> "caught", val |-> 0]

\* the first index >= k of a character of cs in str, or 0
RECURSIVE Find(_, _, _)
Find(str, cs, k) ==
    IF k > Len(str) THEN 0
    ELSE IF str[k] \in cs THEN k
    ELSE Find(str, cs, k + 1)

\* the last index <= k of a character of cs in str, or 0
RECURSIVE RFind(_, _, _)
RFind(str, cs, k) ==
    IF k < 1 THEN 0
    ELSE IF str[k] \in cs THEN k
    ELSE RFind(str, cs, k - 1)

(***************************************************************************)
(* Regular expressions: re.search over the part of the syntax the rule     *)
(* files of the model use.  A pattern is text; "\" makes the next          *)
(* character a literal, "." is any character, "^" and "$" are the two      *)
(* ends of the subject, "{n}" after a character repeats it n times, and    *)
(* "(" or "[" opens a group or a set that the patterns of the model never  *)
(* close.  re.compile raises re.error for an open group or set and for a   *)
(* "\" that ends the pattern, and OverflowError for a repeat count of      *)
(* MAXREPEAT or more.                                                      *)
(***************************************************************************)
MAXREPEAT == <<"4", "2", "9", "4", "9", "6", "7", "2", "9", "5">>   \* 2^32 - 1

RECURSIVE StripZeros(_)
StripZeros(digs) ==
    IF Len(digs) > 1 /\ Head(digs) = "0" THEN StripZeros(Tail(digs)) ELSE digs

\* a >= b for two decimal numbers of the same length
RECURSIVE DecimalGE(_, _)
DecimalGE(a, b) ==
    IF a = <<>> THEN TRUE
    ELSE IF DigitVal(Head(a)) # DigitVal(Head(b))
         THEN DigitVal(Head(a)) > DigitVal(Head(b))
    ELSE DecimalGE(Tail(a), Tail(b))

\* the repeat count is MAXREPEAT or more
TooLarge(digs) ==
    LET d == StripZeros(digs)
    IN Len(d) > Len(MAXREPEAT) \/ (Len(d) = Len(MAXREPEAT) /\ DecimalGE(d, MAXREPEAT))

\* the position of the "}" of a repeat "{digits}" that starts at k, or 0
RepeatEnd(p, k) ==
    LET e == Find(p, {"}"}, k + 1)
    IN IF k <= Len(p) /\ p[k] = "{" /\ e > k + 1
          /\ \A q \in (k + 1)..(e - 1) : p[q] \in Digits
       THEN e ELSE 0

RepeatDigits(p, k) == SubSeq(p, k + 1, RepeatEnd(p, k) - 1)

AtomLen(p, i) == IF p[i] = "\\" THEN 2 ELSE 1

\* re.compile from position i on: "ok", "error" (re.error) or "overflow"
RECURSIVE RegexCompile(_, _)
RegexCompile(p, i) ==
    IF i > Len(p) THEN "ok"
    ELSE IF p[i] = "\\" /\ i + 1 > Len(p) THEN "error"
    ELSE IF p[i] \in {"(", "["} THEN "error"
    ELSE LET k == i + AtomLen(p, i)
         IN IF RepeatEnd(p, k) = 0 THEN RegexCompile(p, k)
            ELSE IF TooLarge(RepeatDigits(p, k)) THEN "overflow"
            ELSE RegexCompile(p, RepeatEnd(p, k) + 1)

\* the character c is what the atom at position i of the pattern stands for
AtomMatches(p, i, c) ==
    IF p[i] = "\\" THEN c = p[i + 1]
    ELSE IF p[i] = "." THEN TRUE
    ELSE c = p[i]

\* the pattern from its position i matches the subject h from position j on
RECURSIVE MatchAt(_, _, _, _)
MatchAt(p, i, h, j) ==
    IF i > Len(p) THEN TRUE
    ELSE IF p[i] = "^" THEN j = 1 /\ MatchAt(p, i + 1, h, j)
    ELSE IF p[i] = "$" THEN j = Len(h) + 1 /\ MatchAt(p, i + 1, h, j)
    ELSE LET k == i + AtomLen(p, i)
             n == IF RepeatEnd(p, k) = 0 THEN 1
                  ELSE DigitsValue(RepeatDigits(p, k), 0)
             next == IF RepeatEnd(p, k) = 0 THEN k ELSE RepeatEnd(p, k) + 1
         IN /\ j + n - 1 <= Len(h)
            /\ \A q \in j..(j + n - 1) : AtomMatches(p, i, h[q])
            /\ MatchAt(p, next, h, j + n)

\* re.search(p, h): "hit", "miss", or the exception raised when the pattern
\* compiles: "error" (re.error) or "overflow" (OverflowError)
re_search(p, h) ==
    IF RegexCompile(p, 1) # "ok" THEN RegexCompile(p, 1)
    ELSE IF \E j \in 1..(Len(h) + 1) : MatchAt(p, 1, h, j) THEN "hit"
    ELSE "miss"

(***************************************************************************)
(* match_rules.  A rule is [match, match_regex, category, up_limit_kib],   *)
(* each a value or Absent; rules_cfg is [rules, defaults]; a hostname is   *)
(* text.  The result is [raised, category, up_limit_kib, by]: raised says  *)
(* an exception left match_rules, category and up_limit_kib are NoneV or   *)
(* the value returned, and by is the index of the rule that returned (0    *)
(* when the defaults did).                                                 *)
(***************************************************************************)

\* line 161 as "elif not match and match_regex": the regex is tried only by
\* a rule with no exact-match field
rule_is_hit_regex_without_match(rule, host) ==
    LET match == Get(rule.match)
        match_regex == Get(rule.match_regex)
    IN IF Truthy(match) THEN (IF match = StrV(host) THEN "hit" ELSE "miss")
       ELSE IF Truthy(match_regex)
            THEN (IF match_regex.t # "str" THEN "raise"
                  ELSE IF re_search(match_regex.s, host) = "overflow" THEN "raise"
                  ELSE IF re_search(match_regex.s, host) = "hit" THEN "hit"
                  ELSE "miss")
       ELSE "miss"

\* lines 156-167: is_hit of one rule for one host, or "raise" when
\* re.search raises what line 165 does not catch: OverflowError, or TypeError
\* for a pattern that is no text
rule_is_hit(rule, host) ==
    LET match == Get(rule.match)
        match_regex == Get(rule.match_regex)
    IN IF Truthy(match) /\ match = StrV(host) THEN "hit"
       ELSE IF Truthy(match_regex)
            THEN (IF match_regex.t # "str" THEN "raise"
                  ELSE IF re_search(match_regex.s, host) = "overflow" THEN "raise"
                  ELSE IF re_search(match_regex.s, host) = "hit" THEN "hit"
                  ELSE "miss")
       ELSE "miss"

NoHit == [kind |-> "none", rule |-> 0, host |-> 0]

\* rules outer, hosts inner: the first rule that matches any hostname
RECURSIVE scan_rule_major(_, _, _, _)
scan_rule_major(hosts, rules, i, j) ==
    IF j > Len(rules) THEN NoHit
    ELSE IF i > Len(hosts) THEN scan_rule_major(hosts, rules, 1, j + 1)
    ELSE LET r == rule_is_hit(rules[j], hosts[i])
         IN IF r = "raise" THEN [kind |-> "raise", rule |-> j, host |-> i]
            ELSE IF r = "hit" THEN [kind |-> "hit", rule |-> j, host |-> i]
            ELSE scan_rule_major(hosts, rules, i + 1, j)

\* lines 154-168: the nested loops from host i, rule j on; the first hit ends
\* the scan
RECURSIVE scan(_, _, _, _)
scan(hosts, rules, i, j) ==
    IF i > Len(hosts) THEN NoHit
    ELSE IF j > Len(rules) THEN scan(hosts, rules, i + 1, 1)
    ELSE LET r == rule_is_hit(rules[j], hosts[i])
         IN IF r = "raise" THEN [kind |-> "raise", rule |-> j, host |-> i]
            ELSE IF r = "hit" THEN [kind |-> "hit", rule |-> j, host |-> i]
            ELSE scan(hosts, rules, i, j + 1)

Raised == [raised |-> TRUE, category |-> NoneV, up_limit_kib |-> NoneV, by |-> 0]

\* lines 171-175 without the int(): the value of the rule is returned as it is
rule_result_uncoerced(rule, j) ==
    [raised |-> FALSE,
     category |-> IF Truthy(rule.category) THEN rule.category ELSE NoneV,
     up_limit_kib |-> IF rule.up_limit_kib # Absent THEN rule.up_limit_kib ELSE NoneV,
     by |-> j]

\* lines 169-177: what the rule that hit returns
rule_result(rule, j) ==
    LET category == IF Truthy(rule.category) THEN rule.category ELSE NoneV
        c == IntCoerce(rule.up_limit_kib)
    IN IF rule.up_limit_kib # Absent /\ c.out = "raised" THEN Raised
       ELSE [raised |-> FALSE,
             category |-> category,
             up_limit_kib |-> IF rule.up_limit_kib # Absent /\ c.out = "ok"
                              THEN IntV(c.val) ELSE NoneV,
             by |-> j]

\* lines 179-188: what the defaults return when no rule hit
defaults_result(defaults) ==
    LET c == IntCoerce(defaults.up_limit_kib)
    IN IF defaults.up_limit_kib # Absent /\ c.out = "raised" THEN Raised
       ELSE [raised |-> FALSE,
             category |-> IF Truthy(Get(defaults.category))
                          THEN defaults.category ELSE NoneV,
             up_limit_kib |-> IF defaults.up_limit_kib # Absent /\ c.out = "ok"
                              THEN IntV(c.val) ELSE NoneV,
             by |-> 0]

\* line 177 as a break: the defaults fill what the rule that hit left absent
match_rules_defaults_fill(hosts, rules_cfg) ==
    LET h == scan(hosts, rules_cfg.rules, 1, 1)
        r == rule_result(rules_cfg.rules[h.rule], h.rule)
        d == defaults_result(rules_cfg.defaults)
    IN IF h.kind = "raise" THEN Raised
       ELSE IF h.kind # "hit" THEN d
       ELSE IF r.raised THEN Raised
       ELSE IF (r.category = NoneV \/ r.up_limit_kib = NoneV) /\ d.raised THEN Raised
       ELSE [raised |-> FALSE,
             category |-> IF r.category = NoneV THEN d.category ELSE r.category,
             up_limit_kib |-> IF r.up_limit_kib = NoneV THEN d.up_limit_kib
                              ELSE r.up_limit_kib,
             by |-> h.rule]

\* lines 148-188
match_rules(hosts, rules_cfg) ==
    LET h == scan(hosts, rules_cfg.rules, 1, 1)
    IN IF h.kind = "raise" THEN Raised
       ELSE IF h.kind = "hit" THEN rule_result(rules_cfg.rules[h.rule], h.rule)
       ELSE defaults_result(rules_cfg.defaults)

(***************************************************************************)
(* extract_hostnames_from_trackers, with urlparse(url).hostname computed   *)
(* on the text of the URL.                                                 *)
(***************************************************************************)
Letters == {"a", "g", "n", "o", "r", "t", "u", "x", "T"}
SchemeChars == Letters \cup Digits \cup {"+", "-", "."}

Lower(c) == IF c = "T" THEN "t" ELSE c

\* urlsplit: the text after "scheme:" when the URL starts with a scheme
AfterScheme(url) ==
    LET c == Find(url, {":"}, 1)
    IN IF c > 1 /\ url[1] \in Letters
          /\ \A k \in 1..(c - 1) : url[k] \in SchemeChars
       THEN SubSeq(url, c + 1, Len(url))
       ELSE url

\* urlsplit: the netloc, present only after "//", up to the first of / ? #
Netloc(url) ==
    LET rest == AfterScheme(url)
        e == Find(rest, {"/", "?", "#"}, 3)
    IN IF Len(rest) >= 2 /\ rest[1] = "/" /\ rest[2] = "/"
       THEN SubSeq(rest, 3, IF e = 0 THEN Len(rest) ELSE e - 1)
       ELSE <<>>

\* urlparse(url).hostname: [out, host], out "ok", "none" (no hostname) or
\* "error" (ValueError: a bracket that is not closed).  The URLs of the
\* model hold no closed bracket.
Hostname(url) ==
    LET netloc == Netloc(url)
        at == RFind(netloc, {"@"}, Len(netloc))
        hostinfo == SubSeq(netloc, at + 1, Len(netloc))
        colon == Find(hostinfo, {":"}, 1)
        name == SubSeq(hostinfo, 1, IF colon = 0 THEN Len(hostinfo) ELSE colon - 1)
    IN IF Find(netloc, {"["}, 1) # 0 /\ Find(netloc, {"]"}, 1) = 0
       THEN [out |-> "error", host |-> <<>>]
       ELSE IF name = <<>> THEN [out |-> "none", host |-> <<>>]
       ELSE [out |-> "ok", host |-> [k \in 1..Len(name) |-> Lower(name[k])]]

\* lines 113-122: the hostnames of the trackers, in order, duplicates kept
RECURSIVE tracker_hosts(_)
tracker_hosts(trackers) ==
    IF trackers = <<>> THEN <<>>
    ELSE LET url == IF Head(trackers).url = Absent THEN StrV(<<>>)
                    ELSE Head(trackers).url
             rest == tracker_hosts(Tail(trackers))
         IN IF ~Truthy(url) THEN rest
            ELSE IF url.t # "str" THEN rest
            ELSE IF Hostname(url.s).out = "ok"
                 THEN <<Hostname(url.s).host>> \o rest
            ELSE rest

\* the last occurrence of each host is kept
RECURSIVE unique_hosts_last(_, _)
unique_hosts_last(hosts, seen) ==
    IF hosts = <<>> THEN <<>>
    ELSE IF \E k \in 2..Len(hosts) : hosts[k] = Head(hosts)
         THEN unique_hosts_last(Tail(hosts), seen)
    ELSE <<Head(hosts)>> \o unique_hosts_last(Tail(hosts), seen \cup {Head(hosts)})

\* lines 124-129: the first occurrence of each host is kept
RECURSIVE unique_hosts(_, _)
unique_hosts(hosts, seen) ==
    IF hosts = <<>> THEN <<>>
    ELSE IF Head(hosts) \in seen THEN unique_hosts(Tail(hosts), seen)
    ELSE <<Head(hosts)>> \o unique_hosts(Tail(hosts), seen \cup {Head(hosts)})

\* lines 111-130
extract_hostnames_from_trackers(trackers) ==
    unique_hosts(tracker_hosts(trackers), {})

(***************************************************************************)
(* Program constants.                                                      *)
(***************************************************************************)
HTTP_OK == 200          \* the status every call takes for success
KIB == 1024             \* bytes in a KiB/s of limit
TicksPerSecond == 2     \* one tick is the 0.5 s the poll sleeps

\* the marker tag of the run, "qbt-rules-" and a uuid
unique_tag == StrV(<<"q", "b", "t", "-", "r", "u", "l", "e", "s", "-", "1">>)

(***************************************************************************)
(* The inputs the model draws from.                                        *)
(***************************************************************************)
t_org == <<"t", ".", "o", "r", "g">>
x_net == <<"x", ".", "n", "e", "t">>
txorg == <<"t", "x", "o", "r", "g">>
tv == StrV(<<"t", "v">>)
mv == StrV(<<"m", "v">>)
misc == StrV(<<"m", "i", "s", "c">>)

re_org == StrV(<<"\\", ".", "o", "r", "g", "$">>)      \* \.org$
re_t_any == StrV(<<"^", "t", ".", "{", "2", "}", "r">>) \* ^t.{2}r
re_bad == StrV(<<"(", "o", "r", "g">>)                 \* (org
\* o{4294967296}
re_huge == StrV(<<"o", "{", "4", "2", "9", "4", "9", "6", "7", "2", "9", "6", "}">>)

Rule(m, r, c, l) == [match |-> m, match_regex |-> r, category |-> c, up_limit_kib |-> l]
Defaults(c, l) == [category |-> c, up_limit_kib |-> l]

\* the responses of the remote
Statuses == {HTTP_OK, 500}
LoginResponses ==
    {[status |-> HTTP_OK, text |-> "Ok."],
     [status |-> HTTP_OK, text |-> "Fails."],
     [status |-> 403, text |-> "Forbidden"]}
FindResults == {<<>>, <<"h1">>, <<"h2", "h1">>}
CategoryLists == {{}, {tv, misc}}

Url(str) == [url |-> StrV(str)]
u_t_org == Url(<<"u", ":", "/", "/", "t", ".", "o", "r", "g", ":", "1", "/", "a">>)
u_T_org == Url(<<"u", ":", "/", "/", "a", "@", "T", ".", "o", "r", "g", "/">>)
u_x_net == Url(<<"u", ":", "/", "/", "x", ".", "n", "e", "t">>)
u_empty == Url(<<>>)
u_no_scheme == Url(<<"t", ".", "o", "r", "g", "/", "a">>)
u_bracket == Url(<<"u", ":", "/", "/", "[", "t">>)
u_no_key == [url |-> Absent]
u_null == [url |-> NoneV]
u_number == [url |-> IntV(5)]

TrackerLists ==
    {<<>>,
     <<u_t_org, u_T_org>>,
     <<u_empty, u_x_net, u_t_org>>,
     <<u_no_scheme, u_bracket, u_no_key>>,
     <<u_x_net, u_t_org, u_x_net>>}

\* what yaml.safe_load gives for the rules files of the model: the two keys,
\* each present or not
RulesFiles ==
    {[has_rules |-> FALSE, rules |-> <<>>, has_defaults |-> FALSE,
      defaults |-> Defaults(Absent, Absent)],
     [has_rules |-> TRUE, rules |-> <<Rule(StrV(t_org), Absent, tv, IntV(500))>>,
      has_defaults |-> TRUE, defaults |-> Defaults(Absent, HalfV(3))],
     [has_rules |-> TRUE,
      rules |-> <<Rule(Absent, re_org, mv, Absent),
                  Rule(StrV(x_net), Absent, tv, IntV(0))>>,
      has_defaults |-> TRUE, defaults |-> Defaults(misc, IntV(100))],
     [has_rules |-> TRUE,
      rules |-> <<Rule(Absent, re_bad, mv, BoolV(TRUE)),
                  Rule(StrV(x_net), NoneV, Absent, IntV(0 - 3))>>,
      has_defaults |-> TRUE, defaults |-> Defaults(misc, StrV(<<"1", "2">>))],
     [has_rules |-> TRUE, rules |-> <<Rule(StrV(x_net), Absent, StrV(<<>>), InfV)>>,
      has_defaults |-> TRUE, defaults |-> Defaults(NoneV, StrV(<<"x">>))]}

\* lines 143-145: the two setdefault calls
load_rules(data) ==
    [rules |-> IF data.has_rules THEN data.rules ELSE <<>>,
     defaults |-> IF data.has_defaults THEN data.defaults
                  ELSE Defaults(Absent, Absent)]

(***************************************************************************)
(* The state of a run of main.                                             *)
(***************************************************************************)
VARIABLES
    pc,           \* the step main is at
    args,         \* the parsed command line
    exit_code,    \* the exit status, NoExit while main runs
    calls,        \* the remote calls issued so far, in order
    rules_cfg,    \* what load_rules returned
    now,          \* time.time(), in ticks since the deadline was set
    deadline,     \* line 254
    torrents,     \* line 255, 257
    torrent_hash, \* line 268
    trackers,     \* line 270
    hosts,        \* line 271
    matched,      \* line 273: what match_rules returned
    cats,         \* line 201
    remote        \* the torrent as the remote holds it

vars == <<pc, args, exit_code, calls, rules_cfg, now, deadline, torrents,
          torrent_hash, trackers, hosts, matched, cats, remote>>

NoExit == 0 - 1
NoCfg == [rules |-> <<>>, defaults |-> Defaults(Absent, Absent)]
NoMatch == [raised |-> FALSE, category |-> NoneV, up_limit_kib |-> NoneV, by |-> 0]
NoRemote == [added |-> FALSE, paused |-> FALSE, tagged |-> FALSE]

Credentials == {NoneV, StrV(<<>>), StrV(<<"u">>)}
Sources == {"magnet", "file", "no_file"}

\* the file --config names: none, one that is no YAML (yaml.YAMLError), one
\* that is no UTF-8 text (UnicodeDecodeError), one that holds YAML that is
\* no mapping (data.setdefault raises AttributeError), or a rules file
ConfigFiles == {"missing", "bad_yaml", "bad_utf8", "not_mapping", "ok"}

\* a remote call: the endpoint, the hash and the argument sent, whether the
\* response was a success as the code tests it, and how many torrents a
\* find-by-tag response listed
Call(op, hash, arg, ok, n) ==
    [op |-> op, hash |-> hash, arg |-> arg, ok |-> ok, n |-> n]

Exit(code) ==
    /\ pc' = "exited"
    /\ exit_code' = code

Init ==
    /\ pc = "login"
    /\ args \in [username : Credentials, password : Credentials, source : Sources,
                 config : ConfigFiles, no_unpause : BOOLEAN,
                 timeout : (0 - 1)..MaxTimeout]
    /\ exit_code = NoExit
    /\ calls = <<>>
    /\ rules_cfg = NoCfg
    /\ now = 0
    /\ deadline = 0
    /\ torrents = <<>>
    /\ torrent_hash = ""
    /\ trackers = <<>>
    /\ hosts = <<>>
    /\ matched = NoMatch
    /\ cats = {}
    /\ remote = NoRemote

(***************************************************************************)
(* The steps of main.  A step issues at most one remote call, and the      *)
(* remote answers it as it likes.                                          *)
(***************************************************************************)

\* line 64 with the password not looked at
LoginChecksUserOnly ==
    /\ pc = "login"
    /\ \/ /\ ~Truthy(args.username)
          /\ Exit(2)
          /\ UNCHANGED calls
       \/ /\ Truthy(args.username)
          /\ \E resp \in LoginResponses :
                LET ok == resp.status = HTTP_OK /\ resp.text = "Ok."
                IN /\ calls' = Append(calls, Call("login", "", NoneV, ok, 0))
                   /\ IF ok THEN pc' = "load_rules" /\ UNCHANGED exit_code
                      ELSE Exit(1)
    /\ UNCHANGED <<args, rules_cfg, now, deadline, torrents, torrent_hash, trackers,
                   hosts, matched, cats, remote>>

\* lines 63-70 and 245
Login ==
    /\ pc = "login"
    /\ \/ /\ ~Truthy(args.username) \/ ~Truthy(args.password)
          /\ Exit(2)
          /\ UNCHANGED calls
       \/ /\ Truthy(args.username) /\ Truthy(args.password)
          /\ \E resp \in LoginResponses :
                LET ok == resp.status = HTTP_OK /\ resp.text = "Ok."
                IN /\ calls' = Append(calls, Call("login", "", NoneV, ok, 0))
                   /\ IF ok THEN pc' = "load_rules" /\ UNCHANGED exit_code
                      ELSE Exit(1)
    /\ UNCHANGED <<args, rules_cfg, now, deadline, torrents, torrent_hash, trackers, hosts,
                   matched, cats, remote>>

\* lines 133-145 and 247.  No file (line 134) and yaml.YAMLError (line 140)
\* exit with 2; what safe_load or setdefault raises otherwise is caught
\* nowhere, and the interpreter exits with 1.
LoadRules ==
    /\ pc = "load_rules"
    /\ \/ /\ args.config \in {"missing", "bad_yaml"}
          /\ Exit(2)
          /\ UNCHANGED rules_cfg
       \/ /\ args.config \in {"bad_utf8", "not_mapping"}
          /\ Exit(1)
          /\ UNCHANGED rules_cfg
       \/ /\ args.config = "ok"
          /\ \E data \in RulesFiles :
                /\ rules_cfg' = load_rules(data)
                /\ pc' = "add_source"
                /\ UNCHANGED exit_code
    /\ UNCHANGED <<args, calls, now, deadline, torrents, torrent_hash, trackers, hosts,
                   matched, cats, remote>>

\* lines 73-94 and 249-255
AddSource ==
    /\ pc = "add_source"
    /\ \/ /\ args.source = "no_file"
          /\ Exit(2)
          /\ UNCHANGED <<calls, remote, deadline>>
       \/ /\ args.source # "no_file"
          /\ \E status \in Statuses :
                /\ calls' = Append(calls,
                                   Call("add", "", unique_tag, status = HTTP_OK, 0))
                /\ IF status # HTTP_OK
                   THEN Exit(1) /\ UNCHANGED <<remote, deadline>>
                   ELSE /\ remote' = [added |-> TRUE, paused |-> TRUE, tagged |-> TRUE]
                        /\ deadline' = now + args.timeout * TicksPerSecond
                        /\ pc' = "poll_check"
                        /\ UNCHANGED exit_code
    /\ UNCHANGED <<args, rules_cfg, now, torrents, torrent_hash, trackers, hosts, matched, cats>>

\* line 256 as "<=": one more pass at the deadline itself
PollCheckInclusive ==
    /\ pc = "poll_check"
    /\ pc' = IF now <= deadline THEN "poll_call" ELSE "check_found"
    /\ UNCHANGED <<args, exit_code, calls, rules_cfg, now, deadline, torrents,
                   torrent_hash, trackers, hosts, matched, cats, remote>>

\* line 256: the loop condition
PollCheck ==
    /\ pc = "poll_check"
    /\ pc' = IF now < deadline THEN "poll_call" ELSE "check_found"
    /\ UNCHANGED <<args, exit_code, calls, rules_cfg, now, deadline, torrents,
                   torrent_hash, trackers, hosts, matched, cats, remote>>

\* lines 257-259 without the break: the poll goes on until the deadline
PollCallNoBreak ==
    /\ pc = "poll_call"
    /\ \E d \in 0..MaxCallDelay :
          /\ now' = now + d
          /\ \/ /\ calls' = Append(calls, Call("find", "", unique_tag, FALSE, 0))
                /\ Exit(1)
                /\ UNCHANGED torrents
             \/ \E found \in FindResults :
                   /\ calls' = Append(calls,
                                      Call("find", "", unique_tag, TRUE, Len(found)))
                   /\ torrents' = found
                   /\ pc' = "poll_sleep"
                   /\ UNCHANGED exit_code
    /\ UNCHANGED <<args, rules_cfg, deadline, torrent_hash, trackers, hosts, matched,
                   cats, remote>>

\* lines 97-101 and 257-259: one find-by-tag call, which takes some time
PollCall ==
    /\ pc = "poll_call"
    /\ \E d \in 0..MaxCallDelay :
          /\ now' = now + d
          /\ \/ /\ calls' = Append(calls, Call("find", "", unique_tag, FALSE, 0))
                /\ Exit(1)
                /\ UNCHANGED torrents
             \/ \E found \in FindResults :
                   /\ calls' = Append(calls,
                                      Call("find", "", unique_tag, TRUE, Len(found)))
                   /\ torrents' = found
                   /\ pc' = IF found # <<>> THEN "check_found" ELSE "poll_sleep"
                   /\ UNCHANGED exit_code
    /\ UNCHANGED <<args, rules_cfg, deadline, torrent_hash, trackers, hosts, matched, cats,
                   remote>>

\* line 260
PollSleep ==
    /\ pc = "poll_sleep"
    /\ now' = now + 1
    /\ pc' = "poll_check"
    /\ UNCHANGED <<args, exit_code, calls, rules_cfg, deadline, torrents,
                   torrent_hash, trackers, hosts, matched, cats, remote>>

\* lines 262-268 without the exit: an empty result goes on with no handle
CheckFoundGoesOn ==
    /\ pc = "check_found"
    /\ torrent_hash' = IF torrents = <<>> THEN "" ELSE torrents[1]
    /\ pc' = "get_trackers"
    /\ UNCHANGED <<args, exit_code, calls, rules_cfg, now, deadline, torrents,
                   trackers, hosts, matched, cats, remote>>

\* lines 262-264 as a jump back to line 256: an empty result polls again
CheckFoundPollsAgain ==
    /\ pc = "check_found"
    /\ IF torrents = <<>>
       THEN pc' = "poll_check" /\ UNCHANGED torrent_hash
       ELSE /\ torrent_hash' = torrents[1]
            /\ pc' = "get_trackers"
    /\ UNCHANGED <<args, exit_code, calls, rules_cfg, now, deadline, torrents, trackers,
                   hosts, matched, cats, remote>>

\* line 267 as torrents[-1]: the handle is that of the last element
CheckFoundTakesLast ==
    /\ pc = "check_found"
    /\ IF torrents = <<>>
       THEN Exit(1) /\ UNCHANGED torrent_hash
       ELSE /\ torrent_hash' = torrents[Len(torrents)]
            /\ pc' = "get_trackers"
            /\ UNCHANGED exit_code
    /\ UNCHANGED <<args, calls, rules_cfg, now, deadline, torrents, trackers, hosts, matched,
                   cats, remote>>

\* lines 262-268
CheckFound ==
    /\ pc = "check_found"
    /\ IF torrents = <<>>
       THEN Exit(1) /\ UNCHANGED torrent_hash
       ELSE /\ torrent_hash' = torrents[1]
            /\ pc' = "get_trackers"
            /\ UNCHANGED exit_code
    /\ UNCHANGED <<args, calls, rules_cfg, now, deadline, torrents, trackers, hosts, matched,
                   cats, remote>>

\* lines 104-108 and 270-273 with the status of the response not looked at
GetTrackersUnchecked ==
    /\ pc = "get_trackers"
    /\ \E status \in Statuses, got \in TrackerLists :
          LET m == match_rules(extract_hostnames_from_trackers(got), rules_cfg)
          IN /\ calls' = Append(calls, Call("get_trackers", torrent_hash, NoneV,
                                            status = HTTP_OK, 0))
             /\ trackers' = got
             /\ hosts' = extract_hostnames_from_trackers(got)
             /\ IF m.raised
                THEN Exit(1) /\ UNCHANGED matched
                ELSE /\ matched' = m
                     /\ pc' = IF Truthy(m.category) THEN "get_categories"
                              ELSE "set_upload_limit"
                     /\ UNCHANGED exit_code
    /\ UNCHANGED <<args, rules_cfg, now, deadline, torrents, torrent_hash, cats,
                   remote>>

\* lines 104-108 and 270-275: the trackers, their hostnames, the rule match
GetTrackers ==
    /\ pc = "get_trackers"
    /\ \/ /\ calls' = Append(calls, Call("get_trackers", torrent_hash, NoneV, FALSE, 0))
          /\ Exit(1)
          /\ UNCHANGED <<trackers, hosts, matched>>
       \/ \E got \in TrackerLists :
             LET m == match_rules(extract_hostnames_from_trackers(got), rules_cfg)
             IN /\ calls' = Append(calls, Call("get_trackers", torrent_hash, NoneV,
                                               TRUE, 0))
                /\ trackers' = got
                /\ hosts' = extract_hostnames_from_trackers(got)
                /\ IF m.raised
                   THEN Exit(1) /\ UNCHANGED matched
                   ELSE /\ matched' = m
                        /\ pc' = IF Truthy(m.category) THEN "get_categories"
                                 ELSE "set_upload_limit"
                        /\ UNCHANGED exit_code
    /\ UNCHANGED <<args, rules_cfg, now, deadline, torrents, torrent_hash, cats,
                   remote>>

\* lines 201-204 without the test of line 202: the category is created
\* whatever the list holds
GetCategoriesAlwaysCreates ==
    /\ pc = "get_categories"
    /\ \/ /\ calls' = Append(calls, Call("get_categories", "", NoneV, FALSE, 0))
          /\ Exit(1)
          /\ UNCHANGED cats
       \/ \E got \in CategoryLists :
             /\ calls' = Append(calls, Call("get_categories", "", NoneV, TRUE, 0))
             /\ cats' = got
             /\ pc' = "create_category"
             /\ UNCHANGED exit_code
    /\ UNCHANGED <<args, rules_cfg, now, deadline, torrents, torrent_hash, trackers,
                   hosts, matched, remote>>

\* lines 191-203: the category list, inside qb_create_category_if_missing
GetCategories ==
    /\ pc = "get_categories"
    /\ \/ /\ calls' = Append(calls, Call("get_categories", "", NoneV, FALSE, 0))
          /\ Exit(1)
          /\ UNCHANGED cats
       \/ \E got \in CategoryLists :
             /\ calls' = Append(calls, Call("get_categories", "", NoneV, TRUE, 0))
             /\ cats' = got
             /\ pc' = IF matched.category \in got THEN "set_category"
                      ELSE "create_category"
             /\ UNCHANGED exit_code
    /\ UNCHANGED <<args, rules_cfg, now, deadline, torrents, torrent_hash, trackers,
                   hosts, matched, remote>>

\* lines 204-207 with a failure that ends the run
CreateCategoryFatal ==
    /\ pc = "create_category"
    /\ \E status \in Statuses :
          /\ calls' = Append(calls, Call("create_category", "", matched.category,
                                         status = HTTP_OK, 0))
          /\ IF status = HTTP_OK THEN pc' = "set_category" /\ UNCHANGED exit_code
             ELSE Exit(1)
    /\ UNCHANGED <<args, rules_cfg, now, deadline, torrents, torrent_hash, trackers,
                   hosts, matched, cats, remote>>

\* lines 204-207
CreateCategory ==
    /\ pc = "create_category"
    /\ \E status \in Statuses :
          calls' = Append(calls, Call("create_category", "", matched.category,
                                      status = HTTP_OK, 0))
    /\ pc' = "set_category"
    /\ UNCHANGED <<args, exit_code, rules_cfg, now, deadline, torrents, torrent_hash,
                   trackers, hosts, matched, cats, remote>>

\* lines 213-215 with a refused set-category sent again
SetCategoryRetries ==
    /\ pc = "set_category"
    /\ \E status \in Statuses :
          /\ calls' = Append(calls, Call("set_category", torrent_hash,
                                         matched.category, status = HTTP_OK, 0))
          /\ pc' = IF status = HTTP_OK THEN "set_upload_limit" ELSE "set_category"
    /\ UNCHANGED <<args, exit_code, rules_cfg, now, deadline, torrents, torrent_hash,
                   trackers, hosts, matched, cats, remote>>

\* lines 210-215 and 277
SetCategory ==
    /\ pc = "set_category"
    /\ \E status \in Statuses :
          calls' = Append(calls, Call("set_category", torrent_hash, matched.category,
                                      status = HTTP_OK, 0))
    /\ pc' = "set_upload_limit"
    /\ UNCHANGED <<args, exit_code, rules_cfg, now, deadline, torrents, torrent_hash,
                   trackers, hosts, matched, cats, remote>>

\* KiB/s taken for thousands of bytes and not floored
limit_bytes_unfloored(limit_kib_per_s) == limit_kib_per_s * 1000

\* line 222
limit_bytes(limit_kib_per_s) ==
    IF limit_kib_per_s * KIB > 0 THEN limit_kib_per_s * KIB ELSE 0

\* lines 218-225 and 279
SetUploadLimit ==
    /\ pc = "set_upload_limit"
    /\ \/ /\ matched.up_limit_kib = NoneV
          /\ UNCHANGED calls
       \/ /\ matched.up_limit_kib # NoneV
          /\ \E status \in Statuses :
                calls' = Append(calls,
                                Call("set_upload_limit", torrent_hash,
                                     IntV(limit_bytes(matched.up_limit_kib.i)),
                                     status = HTTP_OK, 0))
    /\ pc' = "remove_tag"
    /\ UNCHANGED <<args, exit_code, rules_cfg, now, deadline, torrents, torrent_hash,
                   trackers, hosts, matched, cats, remote>>

\* line 281 moved under the test of line 283: the tag is removed only by a
\* run that resumes
RemoveTagOnlyWhenResuming ==
    /\ pc = "remove_tag"
    /\ IF args.no_unpause
       THEN pc' = "summary" /\ UNCHANGED <<calls, remote>>
       ELSE /\ \E status \in Statuses :
                  /\ calls' = Append(calls, Call("remove_tag", torrent_hash,
                                                 unique_tag, status = HTTP_OK, 0))
                  /\ remote' = IF status = HTTP_OK
                               THEN [remote EXCEPT !.tagged = FALSE] ELSE remote
            /\ pc' = "resume"
    /\ UNCHANGED <<args, exit_code, rules_cfg, now, deadline, torrents, torrent_hash,
                   trackers, hosts, matched, cats>>

\* lines 281-284 without the test of line 283: resume whatever --no-unpause
RemoveTagThenResume ==
    /\ pc = "remove_tag"
    /\ \E status \in Statuses :
          /\ calls' = Append(calls, Call("remove_tag", torrent_hash, unique_tag,
                                         status = HTTP_OK, 0))
          /\ remote' = IF status = HTTP_OK THEN [remote EXCEPT !.tagged = FALSE]
                       ELSE remote
    /\ pc' = "resume"
    /\ UNCHANGED <<args, exit_code, rules_cfg, now, deadline, torrents, torrent_hash,
                   trackers, hosts, matched, cats>>

\* lines 228-230 and 281-283
RemoveTag ==
    /\ pc = "remove_tag"
    /\ \E status \in Statuses :
          /\ calls' = Append(calls, Call("remove_tag", torrent_hash, unique_tag,
                                         status = HTTP_OK, 0))
          /\ remote' = IF status = HTTP_OK THEN [remote EXCEPT !.tagged = FALSE]
                       ELSE remote
    /\ pc' = IF args.no_unpause THEN "summary" ELSE "resume"
    /\ UNCHANGED <<args, exit_code, rules_cfg, now, deadline, torrents, torrent_hash,
                   trackers, hosts, matched, cats>>

\* lines 233-236 and 284
Resume ==
    /\ pc = "resume"
    /\ \E status \in Statuses :
          /\ calls' = Append(calls, Call("resume", torrent_hash, NoneV,
                                         status = HTTP_OK, 0))
          /\ remote' = IF status = HTTP_OK THEN [remote EXCEPT !.paused = FALSE]
                       ELSE remote
    /\ pc' = "summary"
    /\ UNCHANGED <<args, exit_code, rules_cfg, now, deadline, torrents, torrent_hash,
                   trackers, hosts, matched, cats>>

\* lines 286-293: the summary line, and main returns
Summary ==
    /\ pc = "summary"
    /\ Exit(0)
    /\ UNCHANGED <<args, calls, rules_cfg, now, deadline, torrents, torrent_hash,
                   trackers, hosts, matched, cats, remote>>

Next ==
    \/ Login
    \/ LoadRules
    \/ AddSource
    \/ PollCheck
    \/ PollCall
    \/ PollSleep
    \/ CheckFound
    \/ GetTrackers
    \/ GetCategories
    \/ CreateCategory
    \/ SetCategory
    \/ SetUploadLimit
    \/ RemoveTag
    \/ Resume
    \/ Summary

Spec == Init /\ [][Next]_vars

\* main is one sequential thread: when a step can be taken it is taken (a
\* remote call returns, a sleep ends)
SpecLive == Spec /\ WF_vars(Next)

(***************************************************************************)
(* match_rules on its own: every hostname list and rule set within the     *)
(* bounds, and one step that applies match_rules to them.                  *)
(***************************************************************************)
SeqsUpTo(S, n) == UNION {[1..k -> S] : k \in 0..n}

HostPool == {t_org, x_net, txorg}

\* the hostname lists extract_hostnames_from_trackers can return: no
\* hostname twice
HostLists ==
    {hs \in SeqsUpTo(HostPool, MaxHosts) :
        \A a, b \in 1..Len(hs) : hs[a] = hs[b] => a = b}

\* the match and match_regex fields of a rule
MatchKinds ==
    {<<StrV(t_org), Absent>>,          \* an exact match
     <<Absent, re_org>>,               \* a regex
     <<Absent, re_bad>>,               \* a regex that re.compile rejects
     <<Absent, re_huge>>,              \* a regex with too large a repeat
     <<StrV(x_net), re_t_any>>,        \* both
     <<StrV(<<>>), NoneV>>}            \* neither

\* the category and up_limit_kib fields of a rule
RuleOutputs ==
    {<<tv, IntV(500)>>,
     <<Absent, StrV(<<" ", "-", "3">>)>>,
     <<StrV(<<>>), Absent>>}

RulePool == {Rule(k[1], k[2], o[1], o[2]) : k \in MatchKinds, o \in RuleOutputs}

DefaultsPool ==
    {Defaults(Absent, Absent),
     Defaults(misc, IntV(100)),
     Defaults(NoneV, StrV(<<"x">>))}

InitMatch ==
    /\ pc = "match_input"
    /\ hosts \in HostLists
    /\ \E rules \in SeqsUpTo(RulePool, MaxRules), defaults \in DefaultsPool :
          rules_cfg = [rules |-> rules, defaults |-> defaults]
    /\ args = [username |-> NoneV, password |-> NoneV, source |-> "magnet",
               config |-> "ok", no_unpause |-> FALSE, timeout |-> 0]
    /\ exit_code = NoExit
    /\ calls = <<>>
    /\ now = 0
    /\ deadline = 0
    /\ torrents = <<>>
    /\ torrent_hash = ""
    /\ trackers = <<>>
    /\ matched = NoMatch
    /\ cats = {}
    /\ remote = NoRemote

\* line 273 alone
MatchRules ==
    /\ pc = "match_input"
    /\ matched' = match_rules(hosts, rules_cfg)
    /\ pc' = "match_done"
    /\ UNCHANGED <<args, exit_code, calls, rules_cfg, now, deadline, torrents,
                   torrent_hash, trackers, hosts, cats, remote>>

NextMatch == MatchRules

SpecMatch == InitMatch /\ [][NextMatch]_vars

(***************************************************************************)
(* extract_hostnames_from_trackers on its own: every tracker list within   *)
(* the bound, and one step that applies the function to it.                *)
(***************************************************************************)
TrackerPool ==
    {u_t_org, u_T_org, u_x_net, u_empty, u_no_scheme, u_bracket, u_no_key, u_null,
     u_number}

InitExtract ==
    /\ pc = "extract_input"
    /\ trackers \in SeqsUpTo(TrackerPool, MaxTrackers)
    /\ args = [username |-> NoneV, password |-> NoneV, source |-> "magnet",
               config |-> "ok", no_unpause |-> FALSE, timeout |-> 0]
    /\ exit_code = NoExit
    /\ calls = <<>>
    /\ rules_cfg = NoCfg
    /\ now = 0
    /\ deadline = 0
    /\ torrents = <<>>
    /\ torrent_hash = ""
    /\ hosts = <<>>
    /\ matched = NoMatch
    /\ cats = {}
    /\ remote = NoRemote

\* line 271 alone
ExtractHostnames ==
    /\ pc = "extract_input"
    /\ hosts' = extract_hostnames_from_trackers(trackers)
    /\ pc' = "extract_done"
    /\ UNCHANGED <<args, exit_code, calls, rules_cfg, now, deadline, torrents,
                   torrent_hash, trackers, matched, cats, remote>>

NextExtract == ExtractHostnames

SpecExtract == InitExtract /\ [][NextExtract]_vars

(***************************************************************************)
(* Properties of a run of main (specification Spec).                       *)
(***************************************************************************)
Issued(op) == \E k \in 1..Len(calls) : calls[k].op = op
Count(op) == Cardinality({k \in 1..Len(calls) : calls[k].op = op})
Failed(op) == \E k \in 1..Len(calls) : calls[k].op = op /\ ~calls[k].ok

AfterRegistrationOps ==
    {"get_trackers", "get_categories", "create_category", "set_category",
     "set_upload_limit", "remove_tag", "resume"}
BestEffortOps ==
    {"create_category", "set_category", "set_upload_limit", "remove_tag", "resume"}
FatalOps == {"login", "add", "get_trackers", "get_categories"}

\* no find-by-tag call has returned a non-empty list
NothingFound == \A k \in 1..Len(calls) : calls[k].op = "find" => calls[k].n = 0

\* the poll is over: the loop was left
PollOver == pc \notin {"login", "load_rules", "add_source", "poll_check",
                       "poll_call", "poll_sleep"}

\* C1: when the poll ends (the deadline has passed, or a find-by-tag call was
\* refused) and no find-by-tag call has returned a non-empty list, the run
\* ends with exit code 1 and none of get-trackers, list-categories,
\* create-category, set-category, set-upload-limit, remove-tag and resume is
\* ever issued.
C1_TimeoutIsOperationalError ==
    (Issued("add") /\ ~Failed("add") /\ NothingFound /\ PollOver) =>
        /\ pc \in {"check_found", "exited"}
        /\ pc = "exited" => exit_code = 1
        /\ \A k \in 1..Len(calls) : calls[k].op \notin AfterRegistrationOps

\* the deadline passed after polls that all returned an empty list
C1_Witness ==
    /\ pc = "exited"
    /\ exit_code = 1
    /\ now >= deadline
    /\ Count("find") >= 2
    /\ ~Failed("find")
    /\ NothingFound

\* the calls after position k, in order
After(k) == SubSeq(calls, k + 1, Len(calls))

\* op is issued at some position after k
IssuedAfter(op, k) == \E j \in (k + 1)..Len(calls) : calls[j].op = op

\* C2: whatever the responses to create-category, set-category,
\* set-upload-limit, remove-tag and resume, a run that issued one of them goes
\* on through every later step (set-category after create-category, then
\* set-upload-limit when a limit was decided, then remove-tag, then resume
\* unless suppressed), issues no other kind of call, and ends with exit code 0.
C2_BestEffortFailuresGoOn ==
    \A k \in 1..Len(calls) :
        calls[k].op \in BestEffortOps =>
            /\ pc = "exited" => exit_code = 0
            /\ \A j \in (k + 1)..Len(calls) : calls[j].op \in BestEffortOps
            /\ pc \in {"summary", "exited"} =>
                  /\ calls[k].op = "create_category" => IssuedAfter("set_category", k)
                  /\ (calls[k].op \in {"create_category", "set_category"}
                      /\ matched.up_limit_kib # NoneV)
                        => IssuedAfter("set_upload_limit", k)
                  /\ calls[k].op \in {"create_category", "set_category",
                                      "set_upload_limit"}
                        => IssuedAfter("remove_tag", k)
                  /\ (calls[k].op # "resume" /\ ~args.no_unpause)
                        => IssuedAfter("resume", k)

\* every best-effort call was issued and refused, and the run ended with 0
C2_Witness ==
    /\ pc = "exited"
    /\ exit_code = 0
    /\ \A op \in BestEffortOps : Issued(op) /\ Failed(op)

\* C3: a non-success response to login, add-source, get-trackers or
\* list-categories is the last remote call of the run, and the run ends at
\* once with exit code 1.
C3_FatalFailureAborts ==
    \A k \in 1..Len(calls) :
        (calls[k].op \in FatalOps /\ ~calls[k].ok) =>
            /\ k = Len(calls)
            /\ pc = "exited"
            /\ exit_code = 1

\* list-categories was refused after everything before it succeeded
C3_Witness ==
    /\ Failed("get_categories")
    /\ Issued("get_trackers")
    /\ pc = "exited"

\* C4: with the username or the password absent or empty, no remote call is
\* ever issued and the run ends with exit code 2.
C4_MissingCredentialsExit2 ==
    (~Truthy(args.username) \/ ~Truthy(args.password)) =>
        /\ calls = <<>>
        /\ pc \in {"login", "exited"}
        /\ pc = "exited" => exit_code = 2

\* a username with an empty password
C4_Witness ==
    /\ Truthy(args.username)
    /\ args.password = StrV(<<>>)
    /\ pc = "exited"
    /\ exit_code = 2

\* what a call sent: the endpoint, the hash and the argument
Sent(c) == [op |-> c.op, hash |-> c.hash, arg |-> c.arg]

RECURSIVE SentAll(_)
SentAll(cs) == IF cs = <<>> THEN <<>> ELSE <<Sent(Head(cs))>> \o SentAll(Tail(cs))

\* the calls that follow registration in a run that ends with its summary,
\* given the handle h, the decision m, the category list cs and --no-unpause
CallsAfterRegistration(h, m, cs, no_unpause) ==
    <<[op |-> "get_trackers", hash |-> h, arg |-> NoneV]>>
    \o (IF Truthy(m.category)
        THEN <<[op |-> "get_categories", hash |-> "", arg |-> NoneV]>>
             \o (IF m.category \in cs THEN <<>>
                 ELSE <<[op |-> "create_category", hash |-> "", arg |-> m.category]>>)
             \o <<[op |-> "set_category", hash |-> h, arg |-> m.category]>>
        ELSE <<>>)
    \o (IF m.up_limit_kib # NoneV
        THEN <<[op |-> "set_upload_limit", hash |-> h,
                arg |-> IntV(IF m.up_limit_kib.i > 0 THEN 1024 * m.up_limit_kib.i
                             ELSE 0)]>>
        ELSE <<>>)
    \o <<[op |-> "remove_tag", hash |-> h, arg |-> unique_tag]>>
    \o (IF no_unpause THEN <<>>
        ELSE <<[op |-> "resume", hash |-> h, arg |-> NoneV]>>)

\* C5: however many find-by-tag calls returned an empty list before one
\* returned a non-empty list, that call ends the poll, every later call that
\* names a handle names the first element of that list, each of get-trackers,
\* set-category, set-upload-limit, remove-tag and resume is issued at most
\* once, and the exit code and the calls of a run that reaches its summary
\* are fixed by the handle, the decision, the category list and --no-unpause
\* alone, so they are those of a run whose first poll found the torrent.
C5_LateRegistrationSameAsFirst ==
    \A f \in 1..Len(calls) :
        (calls[f].op = "find" /\ calls[f].n > 0) =>
            /\ \A j \in 1..Len(calls) : (calls[j].op = "find" /\ j # f) =>
                  (j < f /\ calls[j].n = 0)
            /\ \A j \in (f + 1)..Len(calls) : calls[j].hash \in {"", torrents[1]}
            /\ \A op \in {"get_trackers", "set_category", "set_upload_limit",
                          "remove_tag", "resume"} : Count(op) <= 1
            /\ pc = "exited" =>
                  exit_code =
                      IF \/ \E j \in (f + 1)..Len(calls) : ~calls[j].ok /\ calls[j].op \in FatalOps
                         \/ match_rules(hosts, rules_cfg).raised
                      THEN 1 ELSE 0
            /\ (pc = "exited" /\ exit_code = 0) =>
                  SentAll(After(f)) =
                      CallsAfterRegistration(torrents[1], matched, cats, args.no_unpause)

\* three empty polls, the fourth finds the torrent, the run reaches its summary
C5_Witness ==
    /\ pc = "exited"
    /\ exit_code = 0
    /\ Count("find") = 4
    /\ ~NothingFound
    /\ Issued("resume")

\* C10: every set-upload-limit call submits max(0, 1024 * limit) bytes/s for
\* the limit decided (512000 for 500, 0 for 0 and for every negative limit),
\* a run that decided a limit issues the call, and a run that decided none
\* never does.
C10_UploadLimitBytes ==
    /\ \A k \in 1..Len(calls) :
          calls[k].op = "set_upload_limit" =>
              LET limit == matched.up_limit_kib.i
                  sent == calls[k].arg
              IN /\ matched.up_limit_kib # NoneV
                 /\ sent.t = "int"
                 /\ limit >= 0 => sent.i = 1024 * limit
                 /\ limit < 0 => sent.i = 0
                 /\ limit = 500 => sent.i = 512000
    /\ (pc \in {"remove_tag", "resume", "summary"} \/ (pc = "exited" /\ exit_code = 0))
          => (Issued("set_upload_limit") <=> matched.up_limit_kib # NoneV)

\* a negative limit was decided and 0 was submitted
C10_Witness ==
    /\ matched.up_limit_kib # NoneV
    /\ matched.up_limit_kib.i < 0
    /\ \E k \in 1..Len(calls) :
          calls[k].op = "set_upload_limit" /\ calls[k].arg = IntV(0)

(***************************************************************************)
(* Properties of match_rules (specification SpecMatch).                    *)
(***************************************************************************)
Rules == rules_cfg.rules

\* rule j hits hostname i
Hits(j, i) == rule_is_hit(Rules[j], hosts[i]) = "hit"

\* some rule hits some hostname
AnyHit == \E i \in 1..Len(hosts), j \in 1..Len(Rules) : Hits(j, i)

\* C6: the result of match_rules comes from the first rule, in rule order,
\* that matches the earliest hostname, in hostname order, that any rule
\* matches, also when an earlier rule matches a later hostname.
C6_HostnameMajor ==
    (pc = "match_done" /\ ~matched.raised /\ AnyHit) =>
        /\ matched.by \in 1..Len(Rules)
        /\ matched.category \in {NoneV, Rules[matched.by].category}
        /\ \E i \in 1..Len(hosts) :
              /\ Hits(matched.by, i)
              /\ \A j \in 1..(matched.by - 1) : ~Hits(j, i)
              /\ \A i2 \in 1..(i - 1), j \in 1..Len(Rules) : ~Hits(j, i2)

\* the rule that decided is not the first rule of the list that matches a
\* hostname: an earlier rule matches a later hostname
C6_Witness ==
    /\ pc = "match_done"
    /\ matched.by > 1
    /\ \E j \in 1..(matched.by - 1), i \in 2..Len(hosts) :
          /\ rule_is_hit(Rules[j], hosts[i]) = "hit"
          /\ rule_is_hit(Rules[matched.by], hosts[1]) = "hit"

\* C7: when some rule matches a hostname, the category and the limit returned
\* are those of one matching rule and of nothing else: a category the rule
\* leaves absent or empty, and a limit it leaves absent or that is no
\* integer, is returned absent whatever the defaults hold.  The result is that
\* of the defaults exactly when no rule matches any hostname.
C7_DefaultsOnlyWithoutMatch ==
    (pc = "match_done" /\ ~matched.raised) =>
        IF AnyHit
        THEN /\ matched.by \in 1..Len(Rules)
             /\ LET rule == Rules[matched.by]
                IN /\ \E i \in 1..Len(hosts) : rule_is_hit(rule, hosts[i]) = "hit"
                   /\ matched.category =
                         IF rule.category \in {Absent, NoneV, StrV(<<>>)} THEN NoneV
                         ELSE rule.category
                   /\ matched.up_limit_kib =
                         IF rule.up_limit_kib = Absent
                            \/ IntCoerce(rule.up_limit_kib).out # "ok"
                         THEN NoneV
                         ELSE IntV(IntCoerce(rule.up_limit_kib).val)
        ELSE /\ matched.by = 0
             /\ matched.category =
                   IF Truthy(rules_cfg.defaults.category)
                   THEN rules_cfg.defaults.category ELSE NoneV
             /\ matched.up_limit_kib =
                   IF rules_cfg.defaults.up_limit_kib = Absent
                      \/ IntCoerce(rules_cfg.defaults.up_limit_kib).out # "ok"
                   THEN NoneV
                   ELSE IntV(IntCoerce(rules_cfg.defaults.up_limit_kib).val)

\* a rule with no category matched, the defaults hold a category and a limit,
\* and no category was returned
C7_Witness ==
    /\ pc = "match_done"
    /\ matched.by # 0
    /\ Rules[matched.by].category = Absent
    /\ rules_cfg.defaults = Defaults(misc, IntV(100))
    /\ matched.category = NoneV
    /\ matched.up_limit_kib # IntV(100)

\* the up_limit_kib that match_rules read: that of the rule that returned, or
\* that of the defaults
LimitSource ==
    IF matched.by # 0 THEN Rules[matched.by].up_limit_kib
    ELSE rules_cfg.defaults.up_limit_kib

\* C8 as stated: the limit returned by match_rules is absent or a
\* non-negative integer.
C8_LimitNonNegative ==
    (pc = "match_done" /\ ~matched.raised) =>
        \/ matched.up_limit_kib = NoneV
        \/ matched.up_limit_kib.t = "int" /\ matched.up_limit_kib.i >= 0

\* C8 amended: the limit returned by match_rules is absent or an integer, the
\* int() of the up_limit_kib of the rule that matched or else of the
\* defaults, and it is negative when that configured value is.
C8_LimitIsCoercedInteger ==
    (pc = "match_done" /\ ~matched.raised) =>
        \/ matched.up_limit_kib = NoneV
        \/ /\ matched.up_limit_kib.t = "int"
           /\ LimitSource # Absent
           /\ IntCoerce(LimitSource).out = "ok"
           /\ matched.up_limit_kib.i = IntCoerce(LimitSource).val

\* a rule with the limit " -3" matched and -3 was returned
C8_Witness ==
    /\ pc = "match_done"
    /\ matched.by # 0
    /\ LimitSource = StrV(<<" ", "-", "3">>)
    /\ matched.up_limit_kib = IntV(0 - 3)

\* a rule matches a hostname by a comparison or by a search with a pattern
\* that compiles
ValidHit(rule, host) ==
    \/ rule.match = StrV(host) /\ host # <<>>
    \/ /\ rule.match_regex.t = "str"
       /\ rule.match_regex.s # <<>>
       /\ RegexCompile(rule.match_regex.s, 1) = "ok"
       /\ \E k \in 1..(Len(host) + 1) : MatchAt(rule.match_regex.s, 1, host, k)

\* some up_limit_kib of the rule set is one int() overflows on
SomeLimitOverflows ==
    \/ IntCoerce(rules_cfg.defaults.up_limit_kib).out = "raised"
    \/ \E j \in 1..Len(Rules) : IntCoerce(Rules[j].up_limit_kib).out = "raised"

\* C9: a rule whose regex is invalid matches no hostname through that regex
\* and raises nothing: match_rules raises for no regex (only for a limit that
\* int() overflows on), and the rule that decides is the first that validly
\* matches the earliest validly matched hostname.
C9_InvalidRegexSkipped ==
    pc = "match_done" =>
        /\ matched.raised => SomeLimitOverflows
        /\ ~matched.raised =>
              IF \E i \in 1..Len(hosts), j \in 1..Len(Rules) : ValidHit(Rules[j], hosts[i])
              THEN \E i \in 1..Len(hosts) :
                      /\ ValidHit(Rules[matched.by], hosts[i])
                      /\ \A j \in 1..(matched.by - 1) : ~ValidHit(Rules[j], hosts[i])
                      /\ \A i2 \in 1..(i - 1), j \in 1..Len(Rules) :
                            ~ValidHit(Rules[j], hosts[i2])
              ELSE matched.by = 0

(***************************************************************************)
(* Properties of extract_hostnames_from_trackers (specification            *)
(* SpecExtract).                                                           *)
(***************************************************************************)

\* the hostname of a tracker as a list of one, or the empty list when the
\* tracker has no url, an empty one, one that is no text, or one urlparse
\* finds no hostname in or rejects
HostOf(tr) ==
    IF tr.url.t = "str" /\ tr.url.s # <<>> /\ Hostname(tr.url.s).out = "ok"
    THEN <<Hostname(tr.url.s).host>>
    ELSE <<>>

\* the position of the first tracker with the hostname h
FirstAt(h) ==
    CHOOSE k \in 1..Len(trackers) :
        /\ HostOf(trackers[k]) = <<h>>
        /\ \A k2 \in 1..(k - 1) : HostOf(trackers[k2]) # <<h>>

\* C11: the list returned holds the hostname of every tracker that has one,
\* each exactly once, and nothing else; the hostnames stand in the order of
\* their first trackers; a tracker with an empty, missing, non-text,
\* hostname-less or rejected URL adds nothing and raises nothing; no
\* trackers give no hostnames.
C11_UniqueInFirstOccurrenceOrder ==
    pc = "extract_done" =>
        /\ \A k \in 1..Len(trackers) :
              HostOf(trackers[k]) # <<>> =>
                  Cardinality({a \in 1..Len(hosts) : <<hosts[a]>> = HostOf(trackers[k])}) = 1
        /\ \A a \in 1..Len(hosts) :
              \E k \in 1..Len(trackers) : HostOf(trackers[k]) = <<hosts[a]>>
        /\ \A a, b \in 1..Len(hosts) :
              a < b => FirstAt(hosts[a]) < FirstAt(hosts[b])
        /\ (\A k \in 1..Len(trackers) : HostOf(trackers[k]) = <<>>) => hosts = <<>>
        /\ trackers = <<>> => hosts = <<>>

\* a hostname comes back after another one, and one tracker in three is
\* skipped or a repeat
C11_Witness ==
    /\ pc = "extract_done"
    /\ Len(trackers) = 3
    /\ HostOf(trackers[1]) # <<>>
    /\ HostOf(trackers[3]) = HostOf(trackers[1])
    /\ HostOf(trackers[2]) \notin {<<>>, HostOf(trackers[1])}
    /\ hosts = HostOf(trackers[1]) \o HostOf(trackers[2])

(***************************************************************************)
(* Further properties of a run of main (specification Spec).               *)
(***************************************************************************)

\* the login call was answered with success
LoggedIn == \E k \in 1..Len(calls) : calls[k].op = "login" /\ calls[k].ok

\* C18: an add-source request is sent only after a login that succeeded and
\* a rules file that loaded, and for a file source only if the file is
\* there; after a login that succeeded, a rules file that is missing or
\* cannot be parsed, or a source file that is missing, ends the run with
\* exit code 2, the login call its only call and no torrent added.
C18_NoAddWithoutRulesAndSource ==
    /\ Issued("add") =>
          /\ LoggedIn
          /\ args.config = "ok"
          /\ args.source # "no_file"
          /\ calls[1].op = "login" /\ calls[2].op = "add"
    /\ (LoggedIn /\ pc = "exited"
        /\ (args.config \in {"missing", "bad_yaml", "bad_utf8"}
            \/ (args.config = "ok" /\ args.source = "no_file")))
          => /\ exit_code = 2
             /\ Len(calls) = 1
             /\ ~remote.added

\* the place of a call in the sequence of main
StageOf(op) ==
    CASE op = "login" -> 1
      [] op = "add" -> 2
      [] op = "find" -> 3
      [] op = "get_trackers" -> 4
      [] op = "get_categories" -> 5
      [] op = "create_category" -> 6
      [] op = "set_category" -> 7
      [] op = "set_upload_limit" -> 8
      [] op = "remove_tag" -> 9
      [] op = "resume" -> 10

\* C12: of any two calls of a run the later one belongs to a later place of
\* the sequence login, add-source, find-by-tag, get-trackers,
\* list-categories, create-category, set-category, set-upload-limit,
\* remove-tag, resume, unless both are find-by-tag polls: no call goes back,
\* and only the poll is issued more than once.  It is stated of each call and
\* the next one, which gives it of any two.
C12_StageOrder ==
    \A k \in 1..(Len(calls) - 1) :
        \/ StageOf(calls[k].op) < StageOf(calls[k + 1].op)
        \/ calls[k].op = "find" /\ calls[k + 1].op = "find"

\* a run that issued every kind of call, the poll more than once
C12_Witness ==
    /\ pc = "exited"
    /\ exit_code = 0
    /\ {calls[k].op : k \in 1..Len(calls)} =
          {"login", "add", "find", "get_trackers", "get_categories",
           "create_category", "set_category", "set_upload_limit", "remove_tag",
           "resume"}
    /\ Count("find") = 2

\* call k asks to remove the marker tag of the run from the handle captured
RemovesTag(k) ==
    /\ calls[k].op = "remove_tag"
    /\ calls[k].hash = torrent_hash
    /\ torrent_hash = torrents[1]
    /\ calls[k].arg = unique_tag

\* the category and the limit were applied and main went past line 281
PastRemoveTag == pc \in {"resume", "summary"} \/ (pc = "exited" /\ exit_code = 0)

\* C13: a run that went past the applying of category and limit has issued
\* one remove-tag call, for the handle captured and the marker tag of the
\* run; every resume call comes after it; so the removal is asked for when
\* resume succeeds, when it is refused and when --no-unpause suppresses it.
C13_TagRemovedBeforeResume ==
    /\ PastRemoveTag =>
          /\ \E k \in 1..Len(calls) : RemovesTag(k)
          /\ Count("remove_tag") = 1
    /\ \A k \in 1..Len(calls) :
          calls[k].op = "resume" => \E j \in 1..(k - 1) : RemovesTag(j)
    /\ (PastRemoveTag /\ args.no_unpause) => calls[Len(calls)].op = "remove_tag"

\* resume is suppressed and the run ended with the tag removal asked for
C13_Witness ==
    /\ pc = "exited"
    /\ exit_code = 0
    /\ args.no_unpause
    /\ RemovesTag(Len(calls))

CategoryOps == {"get_categories", "create_category", "set_category"}

\* call k sets the category decided on the handle captured
SetsCategory(k) ==
    /\ k <= Len(calls)
    /\ calls[k].op = "set_category"
    /\ calls[k].hash = torrent_hash
    /\ calls[k].arg = matched.category

\* main went past line 277
PastCategory ==
    pc \in {"set_upload_limit", "remove_tag", "resume", "summary"}
    \/ (pc = "exited" /\ exit_code = 0)

\* C14: list-categories, create-category and set-category are issued only
\* for a category that was decided.  create-category follows a
\* list-categories answer that does not hold the category, and only such an
\* answer; the call after it, or after a list-categories answer that holds
\* the category, is set-category for the handle, whatever create-category
\* was answered.  A run that decided no category and went on issued none of
\* the three.
C14_CategoryEnsuredThenSet ==
    /\ \A k \in 1..Len(calls) :
          /\ calls[k].op \in CategoryOps => Truthy(matched.category)
          /\ calls[k].op = "create_category" =>
                /\ calls[k].arg = matched.category
                /\ matched.category \notin cats
                /\ calls[k - 1].op = "get_categories" /\ calls[k - 1].ok
                /\ k < Len(calls) => SetsCategory(k + 1)
          /\ (calls[k].op = "get_categories" /\ calls[k].ok /\ k < Len(calls)) =>
                IF matched.category \in cats THEN SetsCategory(k + 1)
                ELSE calls[k + 1].op = "create_category"
    /\ PastCategory =>
          IF Truthy(matched.category)
          THEN /\ Count("get_categories") = 1
               /\ Count("set_category") = 1
               /\ Issued("create_category") <=> matched.category \notin cats
          ELSE \A k \in 1..Len(calls) : calls[k].op \notin CategoryOps

\* the category was not in the list, its creation was refused, and
\* set-category was issued all the same
C14_Witness ==
    \E k \in 1..Len(calls) :
        /\ calls[k].op = "create_category"
        /\ ~calls[k].ok
        /\ SetsCategory(k + 1)

\* no category was decided, a limit was, and the run ended with its summary
C14_WitnessNoCategory ==
    /\ pc = "exited"
    /\ exit_code = 0
    /\ ~Truthy(matched.category)
    /\ Issued("set_upload_limit")

\* main went past line 284
PastResume == pc = "summary" \/ (pc = "exited" /\ exit_code = 0)

\* C15: a run that went past its last step issued one resume call, for the
\* handle captured, when --no-unpause is not given, and none when it is.
\* With --no-unpause no run issues a resume call at any point, and the
\* torrent, once added, stays paused as it was added.
C15_ResumeUnlessSuppressed ==
    /\ PastResume =>
          IF args.no_unpause THEN Count("resume") = 0
          ELSE /\ Count("resume") = 1
               /\ calls[Len(calls)].op = "resume"
               /\ calls[Len(calls)].hash = torrent_hash
    /\ args.no_unpause =>
          /\ ~Issued("resume")
          /\ remote.added => remote.paused
    /\ (Issued("add") /\ ~Failed("add")) => remote.added
    /\ (remote.added /\ ~remote.paused) =>
          \E k \in 1..Len(calls) : calls[k].op = "resume" /\ calls[k].ok

\* resume is suppressed: the run ended with its summary, the tag is gone and
\* the torrent is still paused
C15_Witness ==
    /\ pc = "exited"
    /\ exit_code = 0
    /\ args.no_unpause
    /\ remote = [added |-> TRUE, paused |-> TRUE, tagged |-> FALSE]

\* the calls that name a handle
HandleOps == {"get_trackers", "set_category", "set_upload_limit", "remove_tag", "resume"}

\* call k was answered with success
Succeeded(op) == \E k \in 1..Len(calls) : calls[k].op = op /\ calls[k].ok

\* C19: a run that ended with exit code 0 logged in and added the source
\* with success, got a non-empty list from its last find-by-tag call, took
\* the first element of that list for its handle, got the trackers with
\* success and issued remove-tag for that handle.  In every run, each call
\* that names a handle comes after the find-by-tag call that returned the
\* list and names its first element.
C19_ExitZeroOnlyAfterFullSequence ==
    /\ (pc = "exited" /\ exit_code = 0) =>
          /\ Succeeded("login")
          /\ Succeeded("add")
          /\ Succeeded("get_trackers")
          /\ torrents # <<>>
          /\ torrent_hash = torrents[1]
          /\ \E k \in 1..Len(calls) :
                /\ calls[k].op = "remove_tag"
                /\ calls[k].hash = torrents[1]
                /\ calls[k].arg = unique_tag
    /\ \A k \in 1..Len(calls) :
          calls[k].op \in HandleOps =>
              /\ torrents # <<>>
              /\ calls[k].hash = torrents[1]
              /\ \E f \in 1..(k - 1) :
                    /\ calls[f].op = "find"
                    /\ calls[f].ok
                    /\ calls[f].n = Len(torrents)
                    /\ \A j \in (f + 1)..Len(calls) : calls[j].op # "find"

\* two torrents carry the tag, and every call of the run that names a
\* handle names the first
C19_Witness ==
    /\ pc = "exited"
    /\ exit_code = 0
    /\ torrents = <<"h2", "h1">>
    /\ {calls[k].op : k \in 1..Len(calls)} \cap HandleOps = HandleOps
    /\ \A k \in 1..Len(calls) : calls[k].op \in HandleOps => calls[k].hash = "h2"

\* this step issues a find-by-tag call
IssuesFind == Len(calls') = Len(calls) + 1 /\ calls'[Len(calls')].op = "find"

\* C20: a find-by-tag call is issued only at a time strictly before the
\* deadline.  With a timeout of 0 or less, a run whose add-source succeeded
\* issues no find-by-tag call, and no call at all after add-source, ends
\* with exit code 1, and leaves the torrent added, paused and tagged.
C20_PollOnlyBeforeDeadline ==
    /\ [][IssuesFind => now < deadline]_vars
    /\ []((args.timeout <= 0 /\ Succeeded("add")) =>
            /\ ~Issued("find")
            /\ calls[Len(calls)].op = "add"
            /\ pc \in {"poll_check", "check_found", "exited"}
            /\ pc = "exited" => exit_code = 1
            /\ remote = [added |-> TRUE, paused |-> TRUE, tagged |-> TRUE])

\* a timeout of 0: the run ended with 1 after add-source, the torrent added
C20_Witness ==
    /\ args.timeout = 0
    /\ pc = "exited"
    /\ exit_code = 1
    /\ Succeeded("add")
    /\ remote.tagged

(***************************************************************************)
(* Further properties of match_rules (specification SpecMatch).            *)
(***************************************************************************)

\* the rule has no exact-match field and no regex field that count
NeitherField(rule) == ~Truthy(Get(rule.match)) /\ ~Truthy(Get(rule.match_regex))

\* C16: the rule that decides matches its hostname by an exact-match field
\* that is non-empty and equal to it, or by a regex field that is non-empty,
\* compiles and is found in it by search, also when its exact-match field
\* is there and differs; no rule matches in this way any hostname tried
\* before, and none at all when the defaults decide.  For one rule and one
\* hostname the rule decides if and only if it matches in this way.  A rule
\* with neither field never decides.
C16_RuleMatchesIff ==
    pc = "match_done" =>
        /\ (~matched.raised /\ matched.by = 0) =>
              \A i \in 1..Len(hosts), j \in 1..Len(Rules) : ~ValidHit(Rules[j], hosts[i])
        /\ matched.by # 0 =>
              \E i \in 1..Len(hosts) :
                  /\ ValidHit(Rules[matched.by], hosts[i])
                  /\ \A i2 \in 1..i, j2 \in 1..Len(Rules) :
                        (i2 < i \/ j2 < matched.by) => ~ValidHit(Rules[j2], hosts[i2])
        /\ (Len(hosts) = 1 /\ Len(Rules) = 1) =>
              (matched.by = 1 <=> ValidHit(Rules[1], hosts[1]))
        /\ \A j \in 1..Len(Rules) : NeitherField(Rules[j]) => matched.by # j

\* a rule with neither field is passed over, and the next rule matches by
\* its regex a hostname that its exact-match field differs from
C16_Witness ==
    /\ pc = "match_done"
    /\ hosts = <<txorg>>
    /\ matched.by = 2
    /\ NeitherField(Rules[1])
    /\ Rules[2].match = StrV(x_net)
    /\ Rules[2].match_regex = re_t_any

(***************************************************************************)
(* Termination of a run of main (specification SpecLive).                  *)
(***************************************************************************)

\* C17: every run ends, with its summary (exit code 0) or with an error
\* (exit code 1 or 2), and every test of the poll condition is followed by
\* the end of the poll: a non-empty result, a passed deadline or a refused
\* call.
C17_Terminates ==
    /\ <>(pc = "exited" /\ exit_code \in {0, 1, 2})
    /\ (pc = "poll_check") ~> (pc \in {"check_found", "exited"})

\* the longest timeout, and the torrent found by the call that returned at
\* the deadline
C17_Witness ==
    /\ pc = "exited"
    /\ exit_code = 0
    /\ args.timeout = MaxTimeout
    /\ now = deadline
    /\ ~NothingFound

\* the longest timeout, polled to the deadline with nothing found
C17_WitnessTimeout ==
    /\ pc = "exited"
    /\ exit_code = 1
    /\ args.timeout = MaxTimeout
    /\ now >= deadline
    /\ Count("find") = MaxTimeout * TicksPerSecond
    /\ ~Failed("find")

=============================================================================
